---- MODULE Spec2Model ----
(***************************************************************************)
(* A model of parser/parsers/parse_utils.py: the span-aware table row      *)
(* helper (TableRowHelper), the speed table extractor (parse_speed_table), *)
(* the jurisdiction code resolver (get_country_code) and the placeholder   *)
(* validator (validate_road_types).                                        *)
(*                                                                         *)
(* Strings are sequences of symbols.  A symbol stands for a fixed run of   *)
(* characters; the separators the code looks for (":", " ", "{", "}",      *)
(* line break) are symbols of their own, and the words the code searches   *)
(* for ("maxspeed", "access") are single symbols, so that split, strip,    *)
(* replace and the regular expression act on symbols as Python acts on     *)
(* characters.                                                             *)
(***************************************************************************)
EXTENDS Integers, Sequences, FiniteSets, TLC

VARIABLES
    td_cache,       \* TableRowHelper.td_cache: column index -> (remaining, td)
    rowNo,          \* number of rows handed to set_tds / loop iterations done
    lastTds,        \* the tds of the row handed to the last set_tds call
    prevLen,        \* number of tds of the row before that one
    spanfree,       \* no td so far carried a rowspan or colspan other than 1
    watch,          \* one observed placement: <<>> or [td, col, row, N]
    wideAfter,      \* a row after the observed one held a cell with colspan > 1
    norm_cache,     \* a second TableRowHelper fed the same rows with 0 spans written as 1
    column_names,   \* parse_speed_table: column_names
    result,         \* parse_speed_table: result (code -> list of road classes)
    warnings,       \* parse_speed_table: warnings
    status,         \* "running" | "returned" | an exception name
    lastRow,        \* the row (ths, tds) of the last loop iteration
    parse_calls,    \* number of calls of speed_parse_func so far
    log,            \* the rows of the loop iterations done so far, in order
    arg,            \* argument of the pure function under check
    ret,            \* its return value
    pc              \* "call" | "done" for the pure function specifications

vars == <<td_cache, rowNo, lastTds, prevLen, spanfree, watch, wideAfter, norm_cache,
          column_names, result, warnings, status, lastRow, parse_calls, log,
          arg, ret, pc>>

gridVars == <<td_cache, rowNo, lastTds, prevLen, spanfree, watch, wideAfter, norm_cache>>
speedVars == <<column_names, result, warnings, status, lastRow, parse_calls, log>>
funVars == <<arg, ret, pc>>

----------------------------------------------------------------------------
(* Bounds *)

MaxRows == 2        \* rows handed to one TableRowHelper in the grid specification
MaxTableRows == 3   \* rows of one speed table
MaxHeaderRows == 2  \* rows of the header specification
MaxKeyLen == 3      \* symbols in a tag key returned by the speed parser
MaxFilterLen == 4   \* symbols in a filter expression
MaxNameLen == 4     \* symbols in a display name given to get_country_code

----------------------------------------------------------------------------
(* Generic helpers *)

EmptyMap == [x \in {} |-> x]

RECURSIVE SeqsUpTo(_, _)
SeqsUpTo(S, n) ==
    IF n = 0 THEN {<<>>}
    ELSE LET shorter == SeqsUpTo(S, n - 1)
         IN shorter \cup {Append(s, x) : s \in {t \in shorter : Len(t) = n - 1}, x \in S}

\* An HTML attribute: <<>> when the attribute is missing, <<n>> when it is "n".
Missing == <<>>

\* int(td.get(attr, 1))
AttrInt(a) == IF a = Missing THEN 1 ELSE a[1]

----------------------------------------------------------------------------
(* Strings *)

Whitespace == {" ", "\n"}

\* str.strip()
RECURSIVE LStrip(_)
LStrip(s) == IF s # <<>> /\ Head(s) \in Whitespace THEN LStrip(Tail(s)) ELSE s

RECURSIVE RStrip(_)
RStrip(s) ==
    IF s # <<>> /\ s[Len(s)] \in Whitespace THEN RStrip(SubSeq(s, 1, Len(s) - 1)) ELSE s

Strip(s) == RStrip(LStrip(s))

\* str.split(sep) for a one-symbol separator: every occurrence splits.
RECURSIVE SplitFrom(_, _, _, _)
SplitFrom(s, sep, i, cur) ==
    IF i > Len(s) THEN <<cur>>
    ELSE IF s[i] = sep THEN <<cur>> \o SplitFrom(s, sep, i + 1, <<>>)
    ELSE SplitFrom(s, sep, i + 1, Append(cur, s[i]))

Split(s, sep) == SplitFrom(s, sep, 1, <<>>)

\* str.replace(old, new, count): left to right, occurrences that do not
\* overlap, at most count of them (every one when count is negative).
RECURSIVE ReplaceFrom(_, _, _, _, _)
ReplaceFrom(s, old, new, count, i) ==
    IF i + Len(old) - 1 > Len(s) THEN SubSeq(s, i, Len(s))
    ELSE IF count # 0 /\ SubSeq(s, i, i + Len(old) - 1) = old
    THEN new \o ReplaceFrom(s, old, new, count - 1, i + Len(old))
    ELSE <<s[i]>> \o ReplaceFrom(s, old, new, count, i + 1)

Replace(s, old, new, count) == ReplaceFrom(s, old, new, count, 1)

----------------------------------------------------------------------------
(* TableRowHelper *)

\* Mutant of Expire: the expiry test is off by one (remaining == 0).
ExpireLate(cache) ==
    LET keep == {k \in DOMAIN cache : cache[k].remaining # 0}
    IN [k \in keep |-> [remaining |-> cache[k].remaining - 1, td |-> cache[k].td]]

\* set_tds, first loop: entries whose remaining count is 1 are deleted, the
\* others are decremented.
Expire(cache) ==
    LET keep == {k \in DOMAIN cache : cache[k].remaining # 1}
    IN [k \in keep |-> [remaining |-> cache[k].remaining - 1, td |-> cache[k].td]]

\* Mutant of SkipOccupied: occupied columns are not skipped.
NoSkip(cache, col_idx) == col_idx

\* while col_idx in self.td_cache: col_idx += 1
RECURSIVE SkipOccupied(_, _)
SkipOccupied(cache, col_idx) ==
    IF col_idx \in DOMAIN cache THEN SkipOccupied(cache, col_idx + 1) ELSE col_idx

\* for _ in range(colspan): self.td_cache[col_idx] = (rowspan, td); col_idx += 1
\* Every one of the colspan columns is written, occupied or not.
PutSpan(cache, col_idx, td) ==
    LET cols == col_idx .. (col_idx + AttrInt(td.colspan) - 1)
    IN [k \in (DOMAIN cache) \cup cols |->
            IF k \in cols THEN [remaining |-> AttrInt(td.rowspan), td |-> td]
            ELSE cache[k]]

\* set_tds, second loop, from physical cell i on with the cursor at col_idx.
RECURSIVE InsertTds(_, _, _, _)
InsertTds(cache, tds, i, col_idx) ==
    IF i > Len(tds) THEN cache
    ELSE LET at == SkipOccupied(cache, col_idx)
         IN InsertTds(PutSpan(cache, at, tds[i]), tds, i + 1,
                      at + AttrInt(tds[i].colspan))

set_tds(cache, tds) == InsertTds(Expire(cache), tds, 1, 0)

\* get_td(idx) raises KeyError when the column holds nothing.
HasTd(cache, idx) == idx \in DOMAIN cache
get_td(cache, idx) == cache[idx].td

----------------------------------------------------------------------------
(* The grid specification: any sequence of rows handed to one TableRowHelper *)

\* The attribute is missing (read as 1 by AttrInt), "0" or "2".
SpanAttrs == {Missing, <<0>>, <<2>>}

GridCells == [rowspan : SpanAttrs, colspan : SpanAttrs]

\* Rows of no, one or two physical cells.
GridRows == {<<>>} \cup {<<c>> : c \in GridCells} \cup {<<c, d>> : c, d \in GridCells}

\* The cells of a physical row are distinct elements: each gets an identity.
TagRow(row, r) ==
    [i \in 1..Len(row) |->
        [id |-> <<r, i>>, rowspan |-> row[i].rowspan, colspan |-> row[i].colspan]]

NormAttr(a) == IF a = Missing \/ a = <<0>> THEN <<1>> ELSE a

NormRow(tds) ==
    [i \in 1..Len(tds) |->
        [id |-> tds[i].id, rowspan |-> NormAttr(tds[i].rowspan),
         colspan |-> NormAttr(tds[i].colspan)]]

NoSpans(tds) ==
    \A i \in 1..Len(tds) : AttrInt(tds[i].rowspan) = 1 /\ AttrInt(tds[i].colspan) = 1

HasWide(tds) == \E i \in 1..Len(tds) : AttrInt(tds[i].colspan) > 1

\* The placements of the row just inserted that may be observed.
Placements(cache, r) ==
    {[td |-> cache[c].td, col |-> c, row |-> r, N |-> AttrInt(cache[c].td.rowspan)] :
        c \in {k \in DOMAIN cache : cache[k].td.id[1] = r /\ AttrInt(cache[k].td.rowspan) >= 1}}

SpeedIdle ==
    /\ column_names = <<>> /\ result = EmptyMap /\ warnings = <<>>
    /\ status = "idle" /\ lastRow = <<>> /\ parse_calls = 0 /\ log = <<>>

FunIdle == arg = <<>> /\ ret = <<>> /\ pc = "idle"

GridInit ==
    /\ td_cache = EmptyMap /\ norm_cache = EmptyMap
    /\ rowNo = 0 /\ lastTds = <<>> /\ prevLen = 0 /\ spanfree = TRUE
    /\ watch = <<>> /\ wideAfter = FALSE
    /\ SpeedIdle /\ FunIdle

SetTds(row) ==
    /\ rowNo < MaxRows
    /\ LET tds == TagRow(row, rowNo + 1)
           cache == set_tds(td_cache, tds)
       IN /\ td_cache' = cache
          /\ norm_cache' = set_tds(norm_cache, NormRow(tds))
          /\ lastTds' = tds
          /\ \E w \in {<<>>} \cup Placements(cache, rowNo + 1) :
                watch' = IF watch = <<>> THEN w ELSE watch
    /\ rowNo' = rowNo + 1
    /\ prevLen' = Len(lastTds)
    /\ spanfree' = (spanfree /\ NoSpans(row))
    /\ wideAfter' = (wideAfter \/ (watch # <<>> /\ HasWide(row)))
    /\ UNCHANGED <<speedVars, funVars>>

GridNext == \E row \in GridRows : SetTds(row)

SpecGrid == GridInit /\ [][GridNext]_vars

\* What get_td shows of a grid: column -> identity of the cell it returns.
GridView(cache) == [k \in DOMAIN cache |-> cache[k].td.id]

WatchHeld == HasTd(td_cache, watch.col) /\ get_td(td_cache, watch.col) = watch.td

C3_ZeroOrMissingIsOne == GridView(td_cache) = GridView(norm_cache)

\* C9: while no cell has carried a span other than 1, get_td(i) is the i-th
\* physical cell of the last row and no column beyond the row holds a cell.
C9_PlainIndexing ==
    (spanfree /\ rowNo >= 1) =>
        /\ DOMAIN td_cache = 0 .. (Len(lastTds) - 1)
        /\ \A i \in 1..Len(lastTds) : get_td(td_cache, i - 1) = lastTds[i]

\* A span-free row of one cell after a span-free row of two.
C9_Witness ==
    /\ spanfree /\ rowNo = 2 /\ prevLen = 2 /\ Len(lastTds) = 1
    /\ get_td(td_cache, 0) = lastTds[1]
    /\ ~HasTd(td_cache, 1)

----------------------------------------------------------------------------
(* get_country_code *)

NoCode == "None"    \* Python's None

\* The override table, key by key.
country_codes ==
    ( <<"Brunei">> :> "BN" ) @@
    ( <<"Belgium", ":", "Brussels-Capital", " ", "Region">> :> "BE-BRU" ) @@
    ( <<"Belgium", ":", "Flanders">> :> "BE-VLG" ) @@
    ( <<"Belgium", ":", "Wallonia">> :> "BE-WAL" ) @@
    ( <<"Democratic", " ", "Republic", " ", "of", " ", "the", " ", "Congo">> :> "CD" ) @@
    ( <<"Kosovo">> :> "XK" ) @@
    ( <<"Micronesia">> :> "FM" ) @@
    ( <<"Micronesia", ":", "Kosrae">> :> "FM-KSA" ) @@
    ( <<"Micronesia", ":", "Pohnpei">> :> "FM-PNI" ) @@
    ( <<"Micronesia", ":", "Chuuk">> :> "FM-TRK" ) @@
    ( <<"Micronesia", ":", "Yap">> :> "FM-YAP" ) @@
    ( <<"Netherlands", ":", "Bonaire">> :> "NL-BQ1" ) @@
    ( <<"Netherlands", ":", "Saba">> :> "NL-BQ2" ) @@
    ( <<"Netherlands", ":", "Sint", " ", "Eustatius">> :> "NL-BQ3" ) @@
    ( <<"Palestine">> :> "PS" ) @@
    ( <<"Pitcairn", " ", "Islands">> :> "PN" ) @@
    ( <<"Russia">> :> "RU" ) @@
    ( <<"Turkey">> :> "TR" ) @@
    ( <<"United", " ", "Kingdom", ":", "Scotland">> :> "GB-SCT" )

\* The reference database the code consults (pycountry), as a fixture: the
\* countries it knows by name, and each country's subdivisions in the order
\* it enumerates them.  Two subdivisions share a name, and one subdivision
\* carries a name the override table also lists, under another code.
pycountry_countries ==
    ( <<"Belgium">> :> "BE" ) @@ ( <<"Netherlands">> :> "NL" ) @@ ( <<"Brunei">> :> "BX" )

pycountry_subdivisions ==
    ( "BE" :> << [name |-> <<"Antwerp">>, code |-> "BE-VAN"],
                 [name |-> <<"Flanders">>, code |-> "BE-FLA"],
                 [name |-> <<"Antwerp">>, code |-> "BE-AN2"] >> ) @@
    ( "NL" :> << [name |-> <<"Bonaire">>, code |-> "NL-BON"] >> ) @@
    ( "BX" :> << >> )

\* for subdivision in subdivisions: if subdivision.name == subdivision_name: return code
RECURSIVE FirstSubdivision(_, _, _)
FirstSubdivision(subs, subdivision_name, i) ==
    IF i > Len(subs) THEN NoCode
    ELSE IF subs[i].name = subdivision_name THEN subs[i].code
    ELSE FirstSubdivision(subs, subdivision_name, i + 1)

get_country_code(name) ==
    IF name \in DOMAIN country_codes THEN country_codes[name]
    ELSE LET country_and_subdivision_name == Split(name, ":")
             country_name == Strip(country_and_subdivision_name[1])
         IN IF country_name \notin DOMAIN pycountry_countries
            THEN NoCode     \* lookup raises LookupError, caught
            ELSE LET country_code == pycountry_countries[country_name]
                 IN IF Len(country_and_subdivision_name) > 1
                    THEN FirstSubdivision(pycountry_subdivisions[country_code],
                                          Strip(country_and_subdivision_name[2]), 1)
                    ELSE country_code

\* The display names tried: every string of up to MaxNameLen of these symbols.
NameSymbols == {"Belgium", "Flanders", "Antwerp", "Brunei", ":", " "}

Names == SeqsUpTo(NameSymbols, MaxNameLen)

CodeInit ==
    /\ arg \in Names /\ ret = NoCode /\ pc = "call"
    /\ td_cache = EmptyMap /\ norm_cache = EmptyMap
    /\ rowNo = 0 /\ lastTds = <<>> /\ prevLen = 0 /\ spanfree = TRUE
    /\ watch = <<>> /\ wideAfter = FALSE
    /\ SpeedIdle

CallGetCountryCode ==
    /\ pc = "call"
    /\ ret' = get_country_code(arg)
    /\ pc' = "done"
    /\ UNCHANGED <<arg, gridVars, speedVars>>

CodeNext == CallGetCountryCode

SpecCode == CodeInit /\ [][CodeNext]_vars

\* The reference of C7: the override first; otherwise one split at the first
\* ":" only, both parts trimmed.
FirstColon(s) ==
    IF \E i \in 1..Len(s) : s[i] = ":"
    THEN CHOOSE i \in 1..Len(s) : s[i] = ":" /\ \A j \in 1..(i - 1) : s[j] # ":"
    ELSE 0

RefCountryCode(name) ==
    IF name \in DOMAIN country_codes THEN country_codes[name]
    ELSE LET at == FirstColon(name)
             country == Strip(IF at = 0 THEN name ELSE SubSeq(name, 1, at - 1))
             rest == Strip(SubSeq(name, at + 1, Len(name)))
         IN IF country \notin DOMAIN pycountry_countries THEN NoCode
            ELSE IF at = 0 THEN pycountry_countries[country]
            ELSE LET subs == pycountry_subdivisions[pycountry_countries[country]]
                     hits == {i \in 1..Len(subs) : subs[i].name = rest}
                 IN IF hits = {} THEN NoCode
                    ELSE subs[CHOOSE i \in hits : \A j \in hits : i <= j].code

\* C7: get_country_code(name) equals the reference for every name.
C7_MatchesReference == pc = "done" => ret = RefCountryCode(arg)

\* Where the two part: on names with at most one ":" they agree.
AtMostOneColon(s) == Cardinality({i \in 1..Len(s) : s[i] = ":"}) <= 1
OneColonAgreement == (pc = "done" /\ AtMostOneColon(arg)) => ret = RefCountryCode(arg)

----------------------------------------------------------------------------
(* parse_speed_table *)

\* The speed parser handed in by the caller, as a fixture: for a cell text it
\* either raises or returns its tags, in the order the mapping yields them.
speed_parse_func(speeds) ==
    CASE speeds = <<"50">> -> [raised |-> FALSE, tags |-> << <<(<<"maxspeed">>), "50">> >>]
      [] speeds = <<"no">> -> [raised |-> FALSE, tags |-> << <<(<<"access">>), "no">> >>]
      [] speeds = <<"80", " ", "(wet)">> ->
            [raised |-> FALSE,
             tags |-> << <<(<<"maxspeed">>), "80">>,
                         <<(<<"maxspeed", ":", "conditional">>), "80 @ wet">> >>]
      [] OTHER -> [raised |-> TRUE, tags |-> <<>>]

\* Mutant of RewriteKey: only a key that is exactly "access" is renamed.
RewriteKeyExactAccess(key, vehicle_type) ==
    IF vehicle_type # <<"(default)">>
    THEN LET k1 == Replace(key, <<"maxspeed">>, <<"maxspeed", ":">> \o vehicle_type, 1)
         IN IF k1 = <<"access">> THEN vehicle_type ELSE k1
    ELSE key

\* if vehicle_type != "(default)":
\*     key = key.replace("maxspeed", "maxspeed:" + vehicle_type, 1)
\*     key = key.replace("access", vehicle_type)
RewriteKey(key, vehicle_type) ==
    IF vehicle_type # <<"(default)">>
    THEN Replace(Replace(key, <<"maxspeed">>, <<"maxspeed", ":">> \o vehicle_type, 1),
                 <<"access">>, vehicle_type, -1)
    ELSE key

\* for key, value in parsed_speeds.items(): road_tags[rewritten key] = value
RECURSIVE MergeTags(_, _, _, _)
MergeTags(road_tags, parsed, vehicle_type, i) ==
    IF i > Len(parsed) THEN road_tags
    ELSE LET key == RewriteKey(parsed[i][1], vehicle_type)
         IN MergeTags([k \in (DOMAIN road_tags) \cup {key} |->
                          IF k = key THEN parsed[i][2] ELSE road_tags[k]],
                      parsed, vehicle_type, i + 1)

\* Mutant of UnknownWarning: the name is left out.
UnknownWarningNoName(country) == <<"Unknown country / subdivision">>

\* f'{country}: Unknown country / subdivision'
UnknownWarning(country) == country \o <<": Unknown country / subdivision">>

\* The first header row: one name per logical column.
RECURSIVE FirstHeader(_, _)
FirstHeader(ths, i) ==
    IF i > Len(ths) THEN <<>>
    ELSE [j \in 1..AttrInt(ths[i].colspan) |-> ths[i].text] \o FirstHeader(ths, i + 1)

\* A later header row: for (i, th) in enumerate(th_tags), a non-empty text is
\* written to column_names[i + j] for j in range(colspan); an index beyond
\* the list raises IndexError.
RECURSIVE LaterHeader(_, _, _)
LaterHeader(names, ths, i) ==
    IF i > Len(ths) THEN [raised |-> FALSE, names |-> names]
    ELSE LET th == ths[i]
             cols == i .. (i + AttrInt(th.colspan) - 1)    \* i + j, counted from 1
         IN IF th.text = <<>> THEN LaterHeader(names, ths, i + 1)
            ELSE IF \E c \in cols : c > Len(names) THEN [raised |-> TRUE, names |-> names]
            ELSE LaterHeader([c \in 1..Len(names) |->
                                 IF c \in cols THEN th.text ELSE names[c]],
                             ths, i + 1)

HeaderStep(names, ths) ==
    IF Len(ths) = 0 THEN [raised |-> FALSE, names |-> names]
    ELSE IF Len(names) = 0 THEN [raised |-> FALSE, names |-> FirstHeader(ths, 1)]
    ELSE LaterHeader(names, ths, 1)

\* for col_idx in range(2, len(column_names)): ...  The outcome is the status
\* the loop ends with, the tags gathered and the number of parser calls made.
RECURSIVE ColumnLoop(_, _, _, _, _)
ColumnLoop(cache, names, col_idx, road_tags, calls) ==
    IF col_idx >= Len(names) THEN [status |-> "running", tags |-> road_tags, calls |-> calls]
    ELSE IF ~HasTd(cache, col_idx)
    THEN [status |-> "KeyError", tags |-> road_tags, calls |-> calls]
    ELSE LET speeds == get_td(cache, col_idx).text
         IN IF speeds = <<>>
            THEN ColumnLoop(cache, names, col_idx + 1, road_tags, calls)
            ELSE LET vehicle_type == names[col_idx + 1]
                     parsed == speed_parse_func(speeds)
                 IN IF parsed.raised
                    \* the handler's warning names country_and_subdivision_name,
                    \* which parse_speed_table never binds: NameError
                    THEN [status |-> "NameError", tags |-> road_tags, calls |-> calls + 1]
                    ELSE ColumnLoop(cache, names, col_idx + 1,
                                    MergeTags(road_tags, parsed.tags, vehicle_type, 1),
                                    calls + 1)

\* road_class = {'tags': road_tags}; if road_type: road_class['name'] = road_type
RoadClass(road_tags, road_type) ==
    IF road_type # <<>> THEN [tags |-> road_tags, name |-> road_type]
    ELSE [tags |-> road_tags]

\* Mutant of AppendEntry: the entry is put in front of the list.
PrependEntry(res, country_code, road_class) ==
    [k \in (DOMAIN res) \cup {country_code} |->
        IF k = country_code
        THEN <<road_class>> \o (IF k \in DOMAIN res THEN res[k] ELSE <<>>)
        ELSE res[k]]

\* if country_code not in result: result[country_code] = []
\* result[country_code].append(road_class)
AppendEntry(res, country_code, road_class) ==
    [k \in (DOMAIN res) \cup {country_code} |->
        IF k = country_code
        THEN (IF k \in DOMAIN res THEN res[k] ELSE <<>>) \o <<road_class>>
        ELSE res[k]]

\* The body of "for row in table.find_all('tr')" on one row: the status it
\* ends with ("running", or the exception that leaves parse_speed_table) and
\* the locals after it.
RowBody(names0, cache0, res, warns, row) ==
    LET header == HeaderStep(names0, row.ths)
        names == header.names
        cache == set_tds(cache0, row.tds)
        Out(st, r, w, n) ==
            [status |-> st, column_names |-> names, td_cache |-> cache,
             result |-> r, warnings |-> w, calls |-> n]
    IN IF header.raised
       THEN [status |-> "IndexError", column_names |-> names0, td_cache |-> cache0,
             result |-> res, warnings |-> warns, calls |-> 0]
       ELSE IF Len(row.tds) = 0 THEN Out("running", res, warns, 0)
       ELSE IF ~HasTd(cache, 0) THEN Out("KeyError", res, warns, 0)
       ELSE LET country == get_td(cache, 0).text
                country_code == get_country_code(country)
            IN IF country_code = NoCode
               THEN Out("running", res, Append(warns, UnknownWarning(country)), 0)
               ELSE IF ~HasTd(cache, 1) THEN Out("KeyError", res, warns, 0)
               ELSE LET road_type == get_td(cache, 1).text
                        cols == ColumnLoop(cache, names, 2, EmptyMap, 0)
                    IN IF cols.status = "running"
                       THEN Out("running",
                                AppendEntry(res, country_code, RoadClass(cols.tags, road_type)),
                                warns, cols.calls)
                       ELSE Out(cols.status, res, warns, cols.calls)

\* One iteration of the loop.  An exception leaves the function: its locals
\* are gone.
ProcessRow(row) ==
    /\ status = "running"
    /\ rowNo' = rowNo + 1
    /\ lastRow' = row
    /\ LET out == RowBody(column_names, td_cache, result, warnings, row)
       IN /\ status' = out.status
          /\ parse_calls' = parse_calls + out.calls
          /\ IF out.status = "running"
             THEN /\ column_names' = out.column_names
                  /\ td_cache' = out.td_cache
                  /\ result' = out.result
                  /\ warnings' = out.warnings
                  /\ log' = Append(log, row)
             ELSE /\ column_names' = <<>>
                  /\ td_cache' = EmptyMap
                  /\ result' = EmptyMap
                  /\ warnings' = <<>>
                  /\ log' = <<>>
    /\ UNCHANGED <<lastTds, prevLen, spanfree, watch, wideAfter, norm_cache, funVars>>

\* return {'speedLimitsByCountryCode': result, 'warnings': warnings}
Return ==
    /\ status = "running"
    /\ status' = "returned"
    /\ UNCHANGED <<column_names, result, warnings, lastRow, parse_calls, log,
                   gridVars, funVars>>

\* The state of parse_speed_table before its loop.
SpeedStart ==
    /\ column_names = <<>> /\ result = EmptyMap /\ warnings = <<>>
    /\ status = "running" /\ lastRow = [ths |-> <<>>, tds |-> <<>>]
    /\ parse_calls = 0 /\ log = <<>>
    /\ td_cache = EmptyMap /\ norm_cache = EmptyMap
    /\ rowNo = 0 /\ lastTds = <<>> /\ prevLen = 0 /\ spanfree = TRUE
    /\ watch = <<>> /\ wideAfter = FALSE
    /\ FunIdle

Td(text) == [text |-> text, rowspan |-> Missing, colspan |-> Missing]
TdDown(text) == [text |-> text, rowspan |-> <<2>>, colspan |-> Missing]
Th(text) == [text |-> text, colspan |-> Missing]

\* The rows of the speed table specification.
SpeedHeaderRows ==
    { [ths |-> <<Th(<<"Country">>), Th(<<"Road type">>), Th(<<"(default)">>), Th(<<"hgv">>)>>,
       tds |-> <<>>],
      [ths |-> <<Th(<<>>), Th(<<>>), Th(<<>>), Th(<<"bus">>)>>, tds |-> <<>>] }

SpeedCountries ==
    { <<"Belgium">>, <<"Netherlands", ":", "Bonaire">>, <<"Unknownland">> }

SpeedRoads == { <<>>, <<"motorway">> }

SpeedCells == { << <<"50">>, <<"no">> >>, << <<"bad">>, <<"50">> >> }

SpeedDataRows ==
    { [ths |-> <<>>, tds |-> <<Td(c), Td(r), Td(v[1]), Td(v[2])>>] :
        c \in SpeedCountries, r \in SpeedRoads, v \in SpeedCells }
    \cup
    { \* a row whose cells parse to two tags each, one cell being empty
      [ths |-> <<>>, tds |-> <<Td(<<"Belgium">>), Td(<<"motorway">>), Td(<<>>),
                               Td(<<"80", " ", "(wet)">>)>>],
      \* a jurisdiction cell spanning two rows, and the three-cell row below it
      [ths |-> <<>>, tds |-> <<TdDown(<<"Belgium">>), Td(<<"motorway">>), Td(<<"50">>), Td(<<>>)>>],
      [ths |-> <<>>, tds |-> <<Td(<<"rural">>), Td(<<"50">>), Td(<<"no">>)>>],
      \* a row shorter than the header, and a row with no cell at all
      [ths |-> <<>>, tds |-> <<Td(<<"Belgium">>), Td(<<"motorway">>)>>],
      [ths |-> <<>>, tds |-> <<>>] }

SpeedRows == SpeedHeaderRows \cup SpeedDataRows

SpeedNext ==
    \/ \E row \in SpeedRows : rowNo < MaxTableRows /\ ProcessRow(row)
    \/ Return

SpecSpeed == SpeedStart /\ [][SpeedNext]_vars

\* Of the iteration just done: the names after its header step and the grid
\* after its set_tds.
StepNames == HeaderStep(column_names, lastRow'.ths).names
StepCache == set_tds(td_cache, lastRow'.tds)

\* The iteration just done read a data row whose column 0 is held.
DataRowStep ==
    /\ status = "running" /\ rowNo' = rowNo + 1
    /\ ~HeaderStep(column_names, lastRow'.ths).raised
    /\ Len(lastRow'.tds) > 0 /\ HasTd(StepCache, 0)

TotalEntries(res) ==
    LET RECURSIVE Sum(_)
        Sum(K) == IF K = {} THEN 0
                  ELSE LET k == CHOOSE x \in K : TRUE IN Len(res[k]) + Sum(K \ {k})
    IN Sum(DOMAIN res)

\* The columns of the row just read on which the speed parser raises.
RaisedCols(cache, names) ==
    {c \in 2..(Len(names) - 1) :
        /\ HasTd(cache, c) /\ get_td(cache, c).text # <<>>
        /\ speed_parse_func(get_td(cache, c).text).raised}

\* C1: when the speed parser raises on a non-empty cell of a data row whose
\* jurisdiction resolved, the extraction goes on: one warning per such cell is
\* appended and the row's entry is appended.
C1_ParseFailureRecovered ==
    [][ ( /\ DataRowStep
          /\ get_country_code(get_td(StepCache, 0).text) # NoCode
          /\ \A c \in 1..(Len(StepNames) - 1) : HasTd(StepCache, c)
          /\ RaisedCols(StepCache, StepNames) # {} )
        => ( /\ status' = "running"
             /\ Len(warnings') = Len(warnings) + Cardinality(RaisedCols(StepCache, StepNames))
             /\ TotalEntries(result') = TotalEntries(result) + 1 ) ]_vars

\* C6: a data row whose column-0 name does not resolve appends exactly the
\* warning "<name>: Unknown country / subdivision", calls the speed parser
\* for no cell and leaves speedLimitsByCountryCode as it was; the loop goes on.
C6_UnknownCountrySkipsRow ==
    [][ ( /\ DataRowStep
          /\ get_country_code(get_td(StepCache, 0).text) = NoCode )
        => ( /\ warnings' = Append(warnings, get_td(StepCache, 0).text
                                              \o <<": Unknown country / subdivision">>)
             /\ parse_calls' = parse_calls
             /\ result' = result
             /\ status' = "running" ) ]_vars

\* After a header row and a resolved row, a row of an unknown country with
\* speed cells: one warning with its name, no further parser call, no entry.
C6_Witness ==
    /\ status = "running" /\ rowNo = 3 /\ Len(column_names) = 4
    /\ Len(lastRow.tds) = 4 /\ lastRow.tds[1].text = <<"Unknownland">>
    /\ lastRow.tds[3].text # <<>>
    /\ warnings = << <<"Unknownland", ": Unknown country / subdivision">> >>
    /\ TotalEntries(result) = 1 /\ parse_calls >= 1

\* The data rows of the log as the loop reads them: column 0 and column 1 of
\* the grid after each row.
RECURSIVE DataLog(_, _, _)
DataLog(rows, i, cache) ==
    IF i > Len(rows) THEN <<>>
    ELSE LET c == set_tds(cache, rows[i].tds)
         IN (IF Len(rows[i].tds) = 0 THEN <<>>
             ELSE << [country |-> c[0].td.text,
                      road |-> IF HasTd(c, 1) THEN c[1].td.text ELSE <<>>] >>)
            \o DataLog(rows, i + 1, c)

IsUnknownWarning(w) == w[Len(w)] = ": Unknown country / subdivision"

\* C10: as long as the extraction has not failed, speedLimitsByCountryCode[k]
\* lists, in row order, one entry per data row whose name resolved to k
\* (equal rows give equal, separate entries), an entry has a name exactly when
\* the row's column-1 text is not empty, and entries plus "Unknown country"
\* warnings count the data rows.
C10_EntriesFollowRows ==
    status \in {"running", "returned"} =>
        LET dl == DataLog(log, 1, EmptyMap)
            codes == {get_country_code(dl[i].country) : i \in 1..Len(dl)} \ {NoCode}
        IN /\ DOMAIN result = codes
           /\ \A k \in codes :
                LET ForK(d) == get_country_code(d.country) = k
                    mine == SelectSeq(dl, ForK)
                IN /\ Len(result[k]) = Len(mine)
                   /\ \A i \in 1..Len(mine) :
                        /\ "tags" \in DOMAIN result[k][i]
                        /\ ("name" \in DOMAIN result[k][i]) <=> (mine[i].road # <<>>)
                        /\ mine[i].road # <<>> => result[k][i].name = mine[i].road
           /\ TotalEntries(result) + Len(SelectSeq(warnings, IsUnknownWarning)) = Len(dl)

\* Two rows of one jurisdiction, the named one first, returned as two entries.
C10_Witness ==
    /\ status = "returned"
    /\ "BE" \in DOMAIN result /\ Len(result["BE"]) = 2
    /\ "name" \in DOMAIN result["BE"][1] /\ "name" \notin DOMAIN result["BE"][2]
    /\ DOMAIN result["BE"][1].tags # {}

----------------------------------------------------------------------------
(* The header specification: parse_speed_table on rows of th cells only *)

HeaderTexts == { <<>>, <<"A">>, <<"B">> }

ThCells == [text : HeaderTexts, colspan : {Missing, <<2>>}]

\* Rows of one, two or three header cells.
HeaderRows ==
    { [ths |-> t, tds |-> <<>>] :
        t \in {<<a>> : a \in ThCells} \cup {<<a, b>> : a, b \in ThCells}
               \cup {<<a, b, c>> : a, b, c \in ThCells} }

HeaderNext ==
    \/ \E row \in HeaderRows : rowNo < MaxHeaderRows /\ ProcessRow(row)
    \/ Return

SpecHeader == SpeedStart /\ [][HeaderNext]_vars

\* The logical columns a header row covers, and the cell covering column c.
RECURSIVE SpanBefore(_, _)
SpanBefore(ths, i) == IF i <= 1 THEN 0 ELSE SpanBefore(ths, i - 1) + AttrInt(ths[i - 1].colspan)

HeaderWidth(ths) == SpanBefore(ths, Len(ths) + 1)

Covering(ths, c) ==
    CHOOSE i \in 1..Len(ths) : SpanBefore(ths, i) < c /\ c <= SpanBefore(ths, i + 1)

\* The column names C5 states: the first header row expanded; after a later
\* one, per logical column the text of the cell covering it when that text is
\* not empty, the name as it was otherwise.
RefHeader(names, ths) ==
    IF names = <<>> THEN [c \in 1..HeaderWidth(ths) |-> ths[Covering(ths, c)].text]
    ELSE [c \in 1..Len(names) |->
            IF c <= HeaderWidth(ths) /\ ths[Covering(ths, c)].text # <<>>
            THEN ths[Covering(ths, c)].text
            ELSE names[c]]

\* C5: after a header row (one no wider than the list, when it is a later
\* one) the column names are those of RefHeader.
C5_HeaderCarryForward ==
    [][ ( /\ status = "running" /\ rowNo' = rowNo + 1
          /\ Len(lastRow'.ths) > 0
          /\ (column_names # <<>> => HeaderWidth(lastRow'.ths) <= Len(column_names)) )
        => ( /\ status' = "running"
             /\ column_names' = RefHeader(column_names, lastRow'.ths) ) ]_vars

----------------------------------------------------------------------------
(* The key rewrite specification: one parsed key merged for one vehicle type *)

KeySymbols == {"maxspeed", "access", ":", "conditional"}

ParsedKeys == SeqsUpTo(KeySymbols, MaxKeyLen) \ {<<>>}

VehicleTypes == { <<"(default)">>, <<"hgv">>, <<"no", "access">> }

RewriteInit ==
    /\ arg \in ParsedKeys \X VehicleTypes /\ ret = EmptyMap /\ pc = "call"
    /\ td_cache = EmptyMap /\ norm_cache = EmptyMap
    /\ rowNo = 0 /\ lastTds = <<>> /\ prevLen = 0 /\ spanfree = TRUE
    /\ watch = <<>> /\ wideAfter = FALSE
    /\ SpeedIdle

\* The loop of lines 131-135 on a parser result of one key, into empty road_tags.
CallMergeTags ==
    /\ pc = "call"
    /\ ret' = MergeTags(EmptyMap, << <<arg[1], "v">> >>, arg[2], 1)
    /\ pc' = "done"
    /\ UNCHANGED <<arg, gridVars, speedVars>>

RewriteNext == CallMergeTags

SpecRewrite == RewriteInit /\ [][RewriteNext]_vars

Positions(s, x) == {i \in 1..Len(s) : s[i] = x}

Least(S) == CHOOSE i \in S : \A j \in S : i <= j

RECURSIVE Flatten(_)
Flatten(ss) == IF ss = <<>> THEN <<>> ELSE Head(ss) \o Flatten(Tail(ss))

\* The key C4 states: ":V" after "maxspeed" when "maxspeed" is a component of
\* the key, V for the key "access", any other key as it is.
RefKeyAsClaimed(key, V) ==
    IF V = <<"(default)">> THEN key
    ELSE LET parts == Split(key, ":")
         IN IF \E i \in 1..Len(parts) : parts[i] = <<"maxspeed">>
            THEN LET at == Least(Positions(key, "maxspeed"))
                 IN SubSeq(key, 1, at) \o <<":">> \o V \o SubSeq(key, at + 1, Len(key))
            ELSE IF key = <<"access">> THEN V
            ELSE key

\* The key of the amended C4: ":V" after the first "maxspeed" wherever it
\* stands, then V for every "access" of the outcome.
RefKeyAmended(key, V) ==
    IF V = <<"(default)">> THEN key
    ELSE LET k1 == IF Positions(key, "maxspeed") = {} THEN key
                   ELSE LET at == Least(Positions(key, "maxspeed"))
                        IN SubSeq(key, 1, at) \o <<":">> \o V \o SubSeq(key, at + 1, Len(key))
         IN Flatten([i \in 1..Len(k1) |-> IF k1[i] = "access" THEN V ELSE <<k1[i]>>])

\* C4: the key stored for a parsed key is the one the claim states (here for
\* the columns "(default)" and "hgv").
C4_RewriteAsClaimed ==
    (pc = "done" /\ arg[2] \in {<<"(default)">>, <<"hgv">>})
        => ret = (RefKeyAsClaimed(arg[1], arg[2]) :> "v")

\* C4 (amended): the key stored is the parsed key with ":V" after its first
\* "maxspeed" and then V for every "access"; a key with neither, and every
\* key of a "(default)" column, is stored as it is.
C4_RewriteAmended ==
    pc = "done" =>
        /\ ret = (RefKeyAmended(arg[1], arg[2]) :> "v")
        /\ (arg[2] = <<"(default)">> \/ Positions(arg[1], "maxspeed") \cup Positions(arg[1], "access") = {})
             => DOMAIN ret = {arg[1]}

\* "access:conditional" in the hgv column is stored as "hgv:conditional".
C4_Witness ==
    /\ pc = "done" /\ arg = << <<"access", ":", "conditional">>, <<"hgv">> >>
    /\ ret = (<<"hgv", ":", "conditional">> :> "v")

----------------------------------------------------------------------------
(* validate_road_types *)

\* Mutant of MatchEnd: the run of characters is the longest one (".*").
RECURSIVE MatchEndGreedy(_, _)
MatchEndGreedy(f, j) ==
    IF j > Len(f) \/ f[j] = "\n" THEN 0
    ELSE LET later == MatchEndGreedy(f, j + 1)
         IN IF later # 0 THEN later ELSE IF f[j] = "}" THEN j ELSE 0

\* The match of ".*?}" tried from position j on: "." takes any character but
\* a line break, and as few as possible.  The position of the closing brace,
\* or 0 when there is no match.
RECURSIVE MatchEnd(_, _)
MatchEnd(f, j) ==
    IF j > Len(f) THEN 0
    ELSE IF f[j] = "}" THEN j
    ELSE IF f[j] = "\n" THEN 0
    ELSE MatchEnd(f, j + 1)

\* finditer("{.*?}", f): the placeholders match.group(0)[1:-1], left to right.
RECURSIVE FindPlaceholders(_, _)
FindPlaceholders(f, i) ==
    IF i > Len(f) THEN <<>>
    ELSE IF f[i] = "{" /\ MatchEnd(f, i + 1) # 0
    THEN <<SubSeq(f, i + 1, MatchEnd(f, i + 1) - 1)>>
         \o FindPlaceholders(f, MatchEnd(f, i + 1) + 1)
    ELSE FindPlaceholders(f, i + 1)

FilterKeys == <<"filter", "fuzzyFilter", "relationFilter">>

UnableToMap(road_type, placeholder) ==
    road_type \o <<": Unable to map '">> \o placeholder \o <<"'">>

\* The warnings of one filter expression of one road type.
RECURSIVE FilterWarnings(_, _, _, _)
FilterWarnings(road_type, keys, placeholders, i) ==
    IF i > Len(placeholders) THEN <<>>
    ELSE (IF placeholders[i] \notin keys
          THEN <<UnableToMap(road_type, placeholders[i])>> ELSE <<>>)
         \o FilterWarnings(road_type, keys, placeholders, i + 1)

\* A mapping is a sequence of [name, filters] in the order the dict yields them.
RECURSIVE TypeWarnings(_, _, _)
TypeWarnings(road_types, t, k) ==
    IF t > Len(road_types) THEN <<>>
    ELSE IF k > Len(FilterKeys) THEN TypeWarnings(road_types, t + 1, 1)
    ELSE (IF FilterKeys[k] \in DOMAIN road_types[t].filters
          THEN FilterWarnings(road_types[t].name,
                              {road_types[i].name : i \in 1..Len(road_types)},
                              FindPlaceholders(road_types[t].filters[FilterKeys[k]], 1), 1)
          ELSE <<>>)
         \o TypeWarnings(road_types, t, k + 1)

validate_road_types(road_types) == TypeWarnings(road_types, 1, 1)

FilterSymbols == {"{", "}", "a", "\n"}

FilterTexts == SeqsUpTo(FilterSymbols, MaxFilterLen)

RoadNames == { <<"a">>, <<"b">> }

ShortTexts == { <<>>, <<"{", "a", "}">>, <<"{", "b", "}", "{", "c", "}">> }

FilterSets ==
    UNION { [D -> ShortTexts] : D \in SUBSET {"filter", "fuzzyFilter", "relationFilter"} }

\* One road type with any filter text, or two road types with up to three
\* short filters each.
RoadTypeMappings ==
    { << [name |-> n, filters |-> ("filter" :> f)] >> : n \in RoadNames, f \in FilterTexts }
    \cup
    { << [name |-> n[1], filters |-> fs], [name |-> n[2], filters |-> gs] >> :
        n \in {<< <<"a">>, <<"b">> >>, << <<"b">>, <<"a">> >>},
        fs \in FilterSets, gs \in FilterSets }

ValidateInit ==
    /\ arg \in RoadTypeMappings /\ ret = <<>> /\ pc = "call"
    /\ td_cache = EmptyMap /\ norm_cache = EmptyMap
    /\ rowNo = 0 /\ lastTds = <<>> /\ prevLen = 0 /\ spanfree = TRUE
    /\ watch = <<>> /\ wideAfter = FALSE
    /\ SpeedIdle

CallValidateRoadTypes ==
    /\ pc = "call"
    /\ ret' = validate_road_types(arg)
    /\ pc' = "done"
    /\ UNCHANGED <<arg, gridVars, speedVars>>

ValidateNext == CallValidateRoadTypes

SpecValidate == ValidateInit /\ [][ValidateNext]_vars

\* The brace-delimited tokens of f from position i on: an opening brace, the
\* run up to the next closing brace, that brace; the search goes on behind it.
\* With lines, a run holding a line break is no token.
NextClose(f, i) ==
    IF \E j \in (i + 1)..Len(f) : f[j] = "}"
    THEN Least({j \in (i + 1)..Len(f) : f[j] = "}"})
    ELSE 0

IsToken(f, i, lines) ==
    /\ f[i] = "{" /\ NextClose(f, i) # 0
    /\ lines => \A j \in (i + 1)..(NextClose(f, i) - 1) : f[j] # "\n"

RECURSIVE RefTokens(_, _, _)
RefTokens(f, i, lines) ==
    LET starts == {s \in i..Len(f) : IsToken(f, s, lines)}
    IN IF starts = {} THEN <<>>
       ELSE LET s == Least(starts)
            IN <<SubSeq(f, s + 1, NextClose(f, s) - 1)>>
               \o RefTokens(f, NextClose(f, s) + 1, lines)

RefWarnings(road_types, lines) ==
    LET keys == {road_types[i].name : i \in 1..Len(road_types)}
        OfFilter(t, k) ==
            IF FilterKeys[k] \notin DOMAIN road_types[t].filters THEN <<>>
            ELSE LET toks == RefTokens(road_types[t].filters[FilterKeys[k]], 1, lines)
                     Unmapped(p) == p \notin keys
                     bad == SelectSeq(toks, Unmapped)
                 IN [i \in 1..Len(bad) |->
                        road_types[t].name \o <<": Unable to map '">> \o bad[i] \o <<"'">>]
        OfType(t) == OfFilter(t, 1) \o OfFilter(t, 2) \o OfFilter(t, 3)
    IN Flatten([t \in 1..Len(road_types) |-> OfType(t)])

====
